---- MODULE Spec2Model ----
(***************************************************************************)
(* Inventory management CLI (python.py): a catalog of items kept in a      *)
(* Python dict, rewritten wholesale to items.json after every mutation,    *)
(* sale / return transactions against it, and an invoice renderer.         *)
(*                                                                         *)
(* One invocation of the program is one process: it loads the store when   *)
(* the module-level `stock = Stock()` runs, then dispatches exactly one    *)
(* command handler and exits.  A handler (its in-memory mutation and its   *)
(* save_items call) is one step; the file write is taken as one write.     *)
(*                                                                         *)
(* Prices are amounts in cents (Python floats holding two-decimal values   *)
(* of small magnitude, whose sums and products are exact after the .2f     *)
(* rounding the program applies).                                          *)
(***************************************************************************)
EXTENDS Integers, Sequences, FiniteSets

VARIABLES
    store,  \* items.json: [exists, data], data the JSON list of item dicts
    pc,     \* per invocation: "none" (never run), "loaded", "exit"
    items,  \* per invocation: stock.items, a dict in insertion order
    args,   \* per invocation: the argparse Namespace of the command run
    out,    \* per invocation: the lines printed to standard output
    rc,     \* per invocation: the exit status of the process
    pdf     \* per invocation: the invoice document written by c.save()

vars == <<store, pc, items, args, out, rc, pdf>>

---------------------------------------------------------------------------
(* Bounds of the model *)

MaxPrice == 1
MaxQty == 2
MaxNeg == 1
MaxSales == 2

Procs == {"p1", "p2"}
Ids == {"A", "B"}
Names == {"n1", "n2"}
Categories == {"c1"}
Prices == 0..MaxPrice
Quantities == (0 - MaxNeg)..MaxQty
Reasons == {"defective"}

\* Quantities an item may hold in the model; a step that would leave this
\* range is not taken.
StockRange == (0 - MaxNeg)..MaxQty

---------------------------------------------------------------------------
(* Python values *)

\* An optional argparse argument: None is <<>>, a supplied value v is <<v>>.
None == <<>>

Some(v) == <<v>>

Optional(S) == {None} \cup {Some(v) : v \in S}

\* `if name:` on an optional str: None and "" are falsy.
TruthyStr(o) == o # None /\ o[1] # ""

\* `if price:` / `if quantity:` on an optional number: None and 0 are falsy.
TruthyNum(o) == o # None /\ o[1] # 0

\* A dict in insertion order: a sequence of [key, val] entries, keys unique.
Keys(d) == {d[i].key : i \in 1..Len(d)}

Index(d, k) == CHOOSE i \in 1..Len(d) : d[i].key = k

DictGet(d, k) == d[Index(d, k)].val

\* d[k] = v: an existing key keeps its position, a new key goes last.
DictSet(d, k, v) ==
    IF k \in Keys(d)
    THEN [d EXCEPT ![Index(d, k)] = [key |-> k, val |-> v]]
    ELSE Append(d, [key |-> k, val |-> v])

\* del d[k]
DictDel(d, k) == SelectSeq(d, LAMBDA e : e.key # k)

---------------------------------------------------------------------------
(* class Item *)

Item(item_id, name, category, price, quantity) ==
    [item_id |-> item_id, name |-> name, category |-> category,
     price |-> price, quantity |-> quantity]

to_dict(item) ==
    [item_id |-> item.item_id, name |-> item.name, category |-> item.category,
     price |-> item.price, quantity |-> item.quantity]

\* Variant: the name and category arguments of the constructor exchanged.
from_dict_Swapped(data) ==
    Item(data.item_id, data.category, data.name, data.price, data.quantity)

from_dict(data) ==
    Item(data.item_id, data.name, data.category, data.price, data.quantity)

---------------------------------------------------------------------------
(* class Stock: each method returns the dict and the store it leaves *)

NoFile == [exists |-> FALSE, data |-> <<>>]

\* json.dump([item.to_dict() for item in self.items.values()], f), mode "w"
save_items(d) ==
    [exists |-> TRUE, data |-> [i \in 1..Len(d) |-> to_dict(d[i].val)]]

RECURSIVE LoadFrom(_, _, _)
\* {data["item_id"]: Item.from_dict(data) for data in items_data}
LoadFrom(data, i, acc) ==
    IF i > Len(data) THEN acc
    ELSE LoadFrom(data, i + 1, DictSet(acc, data[i].item_id, from_dict(data[i])))

\* self.items = {} in __init__, replaced only when items.json exists
load_items(st) == IF st.exists THEN LoadFrom(st.data, 1, <<>>) ELSE <<>>

Stock_add_item(d, st, item) ==
    LET d2 == DictSet(d, item.item_id, item)
    IN  [items |-> d2, store |-> save_items(d2)]

\* Variant: `is not None` in place of truthiness for the two numbers.
Stock_update_item_IsNotNone(d, st, item_id, name, category, price, quantity) ==
    IF item_id \in Keys(d)
    THEN LET i0 == DictGet(d, item_id)
             i1 == IF TruthyStr(name) THEN [i0 EXCEPT !.name = name[1]] ELSE i0
             i2 == IF TruthyStr(category) THEN [i1 EXCEPT !.category = category[1]] ELSE i1
             i3 == IF price # None THEN [i2 EXCEPT !.price = price[1]] ELSE i2
             i4 == IF quantity # None THEN [i3 EXCEPT !.quantity = quantity[1]] ELSE i3
             d2 == DictSet(d, item_id, i4)
         IN  [items |-> d2, store |-> save_items(d2)]
    ELSE [items |-> d, store |-> st]

Stock_update_item(d, st, item_id, name, category, price, quantity) ==
    IF item_id \in Keys(d)
    THEN LET i0 == DictGet(d, item_id)
             i1 == IF TruthyStr(name) THEN [i0 EXCEPT !.name = name[1]] ELSE i0
             i2 == IF TruthyStr(category) THEN [i1 EXCEPT !.category = category[1]] ELSE i1
             i3 == IF TruthyNum(price) THEN [i2 EXCEPT !.price = price[1]] ELSE i2
             i4 == IF TruthyNum(quantity) THEN [i3 EXCEPT !.quantity = quantity[1]] ELSE i3
             d2 == DictSet(d, item_id, i4)
         IN  [items |-> d2, store |-> save_items(d2)]
    ELSE [items |-> d, store |-> st]

\* Variant: save_items called outside the `if`.
Stock_remove_item_AlwaysSaves(d, st, item_id) ==
    LET d2 == IF item_id \in Keys(d) THEN DictDel(d, item_id) ELSE d
    IN  [items |-> d2, store |-> save_items(d2)]

Stock_remove_item(d, st, item_id) ==
    IF item_id \in Keys(d)
    THEN LET d2 == DictDel(d, item_id)
         IN  [items |-> d2, store |-> save_items(d2)]
    ELSE [items |-> d, store |-> st]

\* self.items.values()
Stock_view_items(d) == [i \in 1..Len(d) |-> d[i].val]

---------------------------------------------------------------------------
(* Printed lines, the Namespace before dispatch, the invoice document *)

Line(text) == [text |-> text]

MsgAdded == Line("Item added successfully!")
MsgUpdated == Line("Item updated successfully!")
MsgRemoved == Line("Item removed successfully!")
MsgNotFound == Line("Error: Item ID not found in the inventory.")
MsgInsufficient == Line("Error: Insufficient quantity for Item ID.")
MsgSale == Line("Sale recorded successfully!")
MsgReturn == Line("Return recorded successfully!")
MsgInvoice == Line("Invoice generated successfully with ID")

NoArgs == [func |-> "none"]

NoPdf == [saved |-> FALSE, lines |-> <<>>, total |-> <<0, 0>>]

\* f"{total_amount:.2f}" of an amount in cents: <<units, hundredths>>
Format2f(cents) == <<cents \div 100, cents % 100>>

\* What a handler leaves behind when the process ends.
Finish(p, a, d, st, o, r, doc) ==
    /\ pc' = [pc EXCEPT ![p] = "exit"]
    /\ args' = [args EXCEPT ![p] = a]
    /\ items' = [items EXCEPT ![p] = d]
    /\ store' = st
    /\ out' = [out EXCEPT ![p] = o]
    /\ rc' = [rc EXCEPT ![p] = r]
    /\ pdf' = [pdf EXCEPT ![p] = doc]

---------------------------------------------------------------------------
(* An invocation: stock = Stock(), then one command handler *)

\* A new process: Stock.__init__ loads items.json.
Start(p) ==
    /\ pc[p] # "loaded"
    /\ pc' = [pc EXCEPT ![p] = "loaded"]
    /\ items' = [items EXCEPT ![p] = load_items(store)]
    /\ args' = [args EXCEPT ![p] = NoArgs]
    /\ out' = [out EXCEPT ![p] = <<>>]
    /\ rc' = [rc EXCEPT ![p] = 0]
    /\ pdf' = [pdf EXCEPT ![p] = NoPdf]
    /\ UNCHANGED store

add_item(p, D) ==
    /\ pc[p] = "loaded"
    /\ \E id \in D.ids, n \in D.names, c \in D.categories,
          pr \in D.prices, q \in D.qtys :
        LET a == [func |-> "add_item", item_id |-> id, name |-> n,
                  category |-> c, price |-> pr, quantity |-> q]
            r == Stock_add_item(items[p], store,
                                Item(a.item_id, a.name, a.category, a.price, a.quantity))
        IN  Finish(p, a, r.items, r.store, <<MsgAdded>>, 0, NoPdf)

update_item(p, D) ==
    /\ pc[p] = "loaded"
    /\ \E id \in D.ids, n \in D.optnames, c \in D.optcategories,
          pr \in Optional(D.prices), q \in Optional(D.qtys) :
        LET a == [func |-> "update_item", item_id |-> id, name |-> n,
                  category |-> c, price |-> pr, quantity |-> q]
            r == Stock_update_item(items[p], store, a.item_id, a.name,
                                   a.category, a.price, a.quantity)
        IN  Finish(p, a, r.items, r.store, <<MsgUpdated>>, 0, NoPdf)

remove_item(p, D) ==
    /\ pc[p] = "loaded"
    /\ \E id \in D.ids :
        LET a == [func |-> "remove_item", item_id |-> id]
            r == Stock_remove_item(items[p], store, a.item_id)
        IN  Finish(p, a, r.items, r.store, <<MsgRemoved>>, 0, NoPdf)

\* One printed line per item, in the dict's order.
ViewLine(item) ==
    [ID |-> item.item_id, Name |-> item.name, Category |-> item.category,
     Price |-> item.price, Quantity |-> item.quantity]

view_items(p) ==
    /\ pc[p] = "loaded"
    /\ LET vs == Stock_view_items(items[p])
       IN  Finish(p, [func |-> "view_items"], items[p], store,
                  [i \in 1..Len(vs) |-> ViewLine(vs[i])], 0, NoPdf)

\* Variant: `<=` in place of `<` in the stock check.
RecordSale_OffByOne(d, st, a) ==
    IF a.item_id \notin Keys(d)
    THEN [items |-> d, store |-> st, out |-> <<MsgNotFound>>]
    ELSE LET item == DictGet(d, a.item_id)
         IN  IF item.quantity <= a.quantity
             THEN [items |-> d, store |-> st, out |-> <<MsgInsufficient>>]
             ELSE LET d2 == DictSet(d, a.item_id,
                                    [item EXCEPT !.quantity = item.quantity - a.quantity])
                  IN  [items |-> d2, store |-> save_items(d2), out |-> <<MsgSale>>]

\* Variant: the stock check left out.
RecordSale_NoGuard(d, st, a) ==
    IF a.item_id \notin Keys(d)
    THEN [items |-> d, store |-> st, out |-> <<MsgNotFound>>]
    ELSE LET item == DictGet(d, a.item_id)
             d2 == DictSet(d, a.item_id,
                           [item EXCEPT !.quantity = item.quantity - a.quantity])
         IN  [items |-> d2, store |-> save_items(d2), out |-> <<MsgSale>>]

\* Variant: stock.save_items() left out.
RecordSale_NoSave(d, st, a) ==
    IF a.item_id \notin Keys(d)
    THEN [items |-> d, store |-> st, out |-> <<MsgNotFound>>]
    ELSE LET item == DictGet(d, a.item_id)
         IN  IF item.quantity < a.quantity
             THEN [items |-> d, store |-> st, out |-> <<MsgInsufficient>>]
             ELSE LET d2 == DictSet(d, a.item_id,
                                    [item EXCEPT !.quantity = item.quantity - a.quantity])
                  IN  [items |-> d2, store |-> st, out |-> <<MsgSale>>]

\* The record_sale handler's result: [items, store, out].
RecordSale(d, st, a) ==
    IF a.item_id \notin Keys(d)
    THEN [items |-> d, store |-> st, out |-> <<MsgNotFound>>]
    ELSE LET item == DictGet(d, a.item_id)
         IN  IF item.quantity < a.quantity
             THEN [items |-> d, store |-> st, out |-> <<MsgInsufficient>>]
             ELSE LET d2 == DictSet(d, a.item_id,
                                    [item EXCEPT !.quantity = item.quantity - a.quantity])
                  IN  [items |-> d2, store |-> save_items(d2), out |-> <<MsgSale>>]

\* Variant: stock.save_items() left out.
RecordReturn_NoSave(d, st, a) ==
    IF a.item_id \notin Keys(d)
    THEN [items |-> d, store |-> st, out |-> <<MsgNotFound>>]
    ELSE LET item == DictGet(d, a.item_id)
             d2 == DictSet(d, a.item_id,
                           [item EXCEPT !.quantity = item.quantity + a.quantity])
         IN  [items |-> d2, store |-> st, out |-> <<MsgReturn>>]

\* Variant: `-=` as in record_sale.
RecordReturn_Subtract(d, st, a) ==
    IF a.item_id \notin Keys(d)
    THEN [items |-> d, store |-> st, out |-> <<MsgNotFound>>]
    ELSE LET item == DictGet(d, a.item_id)
             d2 == DictSet(d, a.item_id,
                           [item EXCEPT !.quantity = item.quantity - a.quantity])
         IN  [items |-> d2, store |-> save_items(d2), out |-> <<MsgReturn>>]

RecordReturn(d, st, a) ==
    IF a.item_id \notin Keys(d)
    THEN [items |-> d, store |-> st, out |-> <<MsgNotFound>>]
    ELSE LET item == DictGet(d, a.item_id)
             d2 == DictSet(d, a.item_id,
                           [item EXCEPT !.quantity = item.quantity + a.quantity])
         IN  [items |-> d2, store |-> save_items(d2), out |-> <<MsgReturn>>]

\* Every quantity of the dict is one the model holds.
InStockRange(d) == \A i \in 1..Len(d) : d[i].val.quantity \in StockRange

record_sale(p, D) ==
    /\ pc[p] = "loaded"
    /\ \E id \in D.ids, q \in D.txqtys, pr \in D.txprices :
        LET a == [func |-> "record_sale", item_id |-> id, quantity |-> q, price |-> pr]
            r == RecordSale(items[p], store, a)
        IN  /\ InStockRange(r.items)
            /\ Finish(p, a, r.items, r.store, r.out, 0, NoPdf)

record_return(p, D) ==
    /\ pc[p] = "loaded"
    /\ \E id \in D.ids, q \in D.txqtys, pr \in D.txprices, why \in Reasons :
        LET a == [func |-> "record_return", item_id |-> id, quantity |-> q,
                  price |-> pr, reason |-> why]
            r == RecordReturn(items[p], store, a)
        IN  /\ InStockRange(r.items)
            /\ Finish(p, a, r.items, r.store, r.out, 0, NoPdf)

\* Variant: `=` in place of `+=`, the total is the last line's amount.
TotalAmount_LastOnly(sales, i) ==
    IF Len(sales) = 0 THEN 0
    ELSE sales[Len(sales)].quantity * sales[Len(sales)].price

RECURSIVE TotalAmount(_, _)
\* total_amount += float(sale.quantity) * float(sale.price), over sales[i..]
TotalAmount(sales, i) ==
    IF i > Len(sales) THEN 0
    ELSE sales[i].quantity * sales[i].price + TotalAmount(sales, i + 1)

\* Bill.generate_pdf: stock.items[sale.item_id] raises KeyError on an absent
\* id, before c.save() and before the success line is printed.
generate_pdf(d, sales) ==
    IF \E i \in 1..Len(sales) : sales[i].item_id \notin Keys(d)
    THEN [out |-> <<>>, rc |-> 1, pdf |-> NoPdf]
    ELSE [out |-> <<MsgInvoice>>, rc |-> 0,
          pdf |-> [saved |-> TRUE,
                   lines |-> [i \in 1..Len(sales) |->
                                [name |-> DictGet(d, sales[i].item_id).name,
                                 quantity |-> sales[i].quantity,
                                 price |-> sales[i].price]],
                   total |-> Format2f(TotalAmount(sales, 1))]]

\* sale_data.split(','), int(quantity), float(price) -> Sale(None, ...)
Sale(sale_data) ==
    [item_id |-> sale_data[1], quantity |-> sale_data[2], price |-> sale_data[3]]

generate_invoice(p, D) ==
    /\ pc[p] = "loaded"
    /\ \E ss \in D.sales :
        LET a == [func |-> "generate_invoice", sales |-> ss]
            sales == [i \in 1..Len(a.sales) |-> Sale(a.sales[i])]
            r == generate_pdf(items[p], sales)
        IN  Finish(p, a, items[p], store, r.out, r.rc, r.pdf)

---------------------------------------------------------------------------
(* Specifications *)

\* The non-empty lists (nargs='+') of at most n sale arguments.
SaleLists(triples, n) == UNION {[1..k -> triples] : k \in 1..n}

\* Inputs of the sequential runs: every kind of catalog argument.
DomAll ==
    [ids |-> Ids, names |-> Names, categories |-> Categories,
     optnames |-> Optional(Names \cup {""}),
     optcategories |-> Optional(Categories \cup {""}),
     prices |-> Prices, qtys |-> Quantities,
     txqtys |-> Quantities, txprices |-> {MaxPrice},
     sales |-> SaleLists(Ids \X {1} \X {MaxPrice}, 1)]

\* The same, with every supplied quantity >= 0.
DomNonNeg ==
    [DomAll EXCEPT !.qtys = 0..MaxQty, !.txqtys = 0..MaxQty]

\* Inputs of the invoice runs: a small catalog, every kind of sale line.
DomInvoice ==
    [ids |-> Ids, names |-> Names, categories |-> Categories,
     optnames |-> {None}, optcategories |-> {None},
     prices |-> {0}, qtys |-> {MaxQty},
     txqtys |-> {MaxQty}, txprices |-> {MaxPrice},
     sales |-> SaleLists(Ids \X (1..MaxQty) \X Prices, MaxSales)]

\* Inputs of the concurrent runs: one kind of item, every sale quantity.
DomConc ==
    [ids |-> Ids, names |-> {"n1"}, categories |-> Categories,
     optnames |-> {None}, optcategories |-> {None},
     prices |-> {MaxPrice}, qtys |-> {MaxQty},
     txqtys |-> 1..MaxQty, txprices |-> {MaxPrice},
     sales |-> SaleLists({"A"} \X {1} \X {MaxPrice}, 1)]

Init ==
    /\ store = NoFile
    /\ pc = [p \in Procs |-> "none"]
    /\ items = [p \in Procs |-> <<>>]
    /\ args = [p \in Procs |-> NoArgs]
    /\ out = [p \in Procs |-> <<>>]
    /\ rc = [p \in Procs |-> 0]
    /\ pdf = [p \in Procs |-> NoPdf]

Command(p, D) ==
    \/ add_item(p, D)
    \/ update_item(p, D)
    \/ remove_item(p, D)
    \/ view_items(p)
    \/ record_sale(p, D)
    \/ record_return(p, D)
    \/ generate_invoice(p, D)

\* One invocation after another: the single-user use the program is built for.
Next == Start("p1") \/ Command("p1", DomAll)

Spec == Init /\ [][Next]_vars

NextNonNeg == Start("p1") \/ Command("p1", DomNonNeg)

SpecNonNeg == Init /\ [][NextNonNeg]_vars

NextInvoice == Start("p1") \/ Command("p1", DomInvoice)

SpecInvoice == Init /\ [][NextInvoice]_vars

\* Two invocations against the same items.json, their steps interleaved.
NextConc == \E p \in Procs : Start(p) \/ Command(p, DomConc)

SpecConc == Init /\ [][NextConc]_vars

---------------------------------------------------------------------------
(* Vocabulary of the properties *)

\* Invocation p has run command f to its end.
Exited(p, f) == pc[p] = "exit" /\ args[p].func = f

\* This step is invocation p running command f.
Ran(p, f) == pc[p] = "loaded" /\ pc'[p] = "exit" /\ args'[p].func = f

QuantityOf(d, k) == DictGet(d, k).quantity

\* d2 is d with item k's quantity changed by delta and nothing else changed.
OnlyQuantityMoved(d, d2, k, delta) ==
    /\ Len(d2) = Len(d)
    /\ \A i \in 1..Len(d) :
        IF d[i].key = k
        THEN /\ d2[i].key = k
             /\ d2[i].val.quantity = d[i].val.quantity + delta
             /\ d2[i].val.item_id = d[i].val.item_id
             /\ d2[i].val.name = d[i].val.name
             /\ d2[i].val.category = d[i].val.category
             /\ d2[i].val.price = d[i].val.price
        ELSE d2[i] = d[i]

\* The store holds exactly the catalog d: the same item_ids, and for each the
\* same name, category, price and quantity; no file counts as no items.
StoreEquals(st, d) ==
    /\ Len(st.data) = Len(d)
    /\ {st.data[i].item_id : i \in 1..Len(st.data)} = Keys(d)
    /\ \A i \in 1..Len(st.data) :
        LET r == st.data[i]
            v == DictGet(d, r.item_id)
        IN  /\ r.item_id = v.item_id
            /\ r.name = v.name
            /\ r.category = v.category
            /\ r.price = v.price
            /\ r.quantity = v.quantity

---------------------------------------------------------------------------
(* C1: record_sale validation *)

\* C1: a record_sale of Q units of X reports ItemNotFound and changes neither
\* catalog nor store when X is absent, reports InsufficientStock and changes
\* neither when Q exceeds X's on-hand quantity, and otherwise succeeds with
\* X's quantity lowered by exactly Q and everything else as it was.
C1_SaleValidation ==
    [][\A p \in Procs : Ran(p, "record_sale") =>
        LET X == args'[p].item_id
            Q == args'[p].quantity
        IN  IF X \notin Keys(items[p])
            THEN /\ out'[p] = <<MsgNotFound>>
                 /\ items'[p] = items[p]
                 /\ store' = store
            ELSE IF Q > QuantityOf(items[p], X)
            THEN /\ out'[p] = <<MsgInsufficient>>
                 /\ items'[p] = items[p]
                 /\ store' = store
            ELSE /\ out'[p] = <<MsgSale>>
                 /\ OnlyQuantityMoved(items[p], items'[p], X, 0 - Q)]_vars

\* A sale of the whole on-hand quantity has succeeded beside another item.
C1_Witness ==
    /\ Exited("p1", "record_sale")
    /\ out["p1"] = <<MsgSale>>
    /\ args["p1"].quantity = MaxQty
    /\ Len(items["p1"]) = 2
    /\ QuantityOf(items["p1"], args["p1"].item_id) = 0

---------------------------------------------------------------------------
(* C2: the store equals the in-memory catalog *)

\* C2: in every state of a sequence of commands, the persisted store equals
\* the in-memory catalog of the invocation, item for item and field for field.
C2_StoreEqualsCatalog ==
    \A p \in Procs : pc[p] # "none" => StoreEquals(store, items[p])

\* A return has completed on a catalog of two items.
C2_Witness ==
    /\ Exited("p1", "record_return")
    /\ out["p1"] = <<MsgReturn>>
    /\ args["p1"].quantity > 0
    /\ Len(items["p1"]) = 2

---------------------------------------------------------------------------
(* C3: record_return *)

\* C3: a record_return on a present item succeeds and raises that item's
\* quantity by exactly the returned quantity, whatever the quantity was, and
\* changes nothing else; on an absent item it reports ItemNotFound and
\* changes nothing.
C3_Return ==
    [][\A p \in Procs : Ran(p, "record_return") =>
        LET X == args'[p].item_id
            Q == args'[p].quantity
        IN  IF X \notin Keys(items[p])
            THEN /\ out'[p] = <<MsgNotFound>>
                 /\ items'[p] = items[p]
                 /\ store' = store
            ELSE /\ out'[p] = <<MsgReturn>>
                 /\ OnlyQuantityMoved(items[p], items'[p], X, Q)]_vars

\* A return has raised an item to the quantity it was added with or above,
\* no sale having lowered it first being required.
C3_Witness ==
    /\ Exited("p1", "record_return")
    /\ out["p1"] = <<MsgReturn>>
    /\ args["p1"].quantity = MaxQty
    /\ QuantityOf(items["p1"], args["p1"].item_id) = MaxQty

---------------------------------------------------------------------------
(* C4: recovery of ItemNotFound and InsufficientStock *)

\* The command of this Namespace names an item_id the catalog d lacks.
NamesAbsentItem(a, d) ==
    \/ /\ a.func \in {"record_sale", "record_return"}
       /\ a.item_id \notin Keys(d)
    \/ /\ a.func = "generate_invoice"
       /\ \E i \in 1..Len(a.sales) : a.sales[i][1] \notin Keys(d)

\* The sale of this Namespace asks for more than catalog d has on hand.
AsksTooMuch(a, d) ==
    /\ a.func = "record_sale"
    /\ a.item_id \in Keys(d)
    /\ a.quantity > QuantityOf(d, a.item_id)

\* C4: a command that names an absent item_id (record_sale, record_return,
\* an invoice line of generate_invoice), or a sale that asks for more than is
\* on hand, prints a user-facing error message, ends with exit status 0 and
\* leaves catalog and store unchanged.
C4_Recovered ==
    [][\A p \in Procs :
        (/\ pc[p] = "loaded"
         /\ pc'[p] = "exit"
         /\ NamesAbsentItem(args'[p], items[p]) \/ AsksTooMuch(args'[p], items[p]))
        => /\ out'[p] \in {<<MsgNotFound>>, <<MsgInsufficient>>}
           /\ rc'[p] = 0
           /\ items'[p] = items[p]
           /\ store' = store]_vars

---------------------------------------------------------------------------
(* C5: update *)

\* The value a field holds after an update that supplied `o` for it.
AfterStr(old, o) == IF o = None \/ o = Some("") THEN old ELSE o[1]

AfterNum(old, o) == IF o = None \/ o = Some(0) THEN old ELSE o[1]

\* C5: update on an absent item_id changes nothing and creates nothing; on a
\* present item_id it overwrites exactly the fields whose supplied value is
\* truthy and leaves the other fields and the other items unchanged; so an
\* update never turns a quantity or a price into 0.
C5_Update ==
    [][\A p \in Procs : Ran(p, "update_item") =>
        LET a == args'[p]
            d == items[p]
            d2 == items'[p]
        IN  IF a.item_id \notin Keys(d)
            THEN d2 = d /\ store' = store
            ELSE /\ Len(d2) = Len(d)
                 /\ \A i \in 1..Len(d) :
                     IF d[i].key = a.item_id
                     THEN /\ d2[i].key = d[i].key
                          /\ d2[i].val.item_id = d[i].val.item_id
                          /\ d2[i].val.name = AfterStr(d[i].val.name, a.name)
                          /\ d2[i].val.category = AfterStr(d[i].val.category, a.category)
                          /\ d2[i].val.price = AfterNum(d[i].val.price, a.price)
                          /\ d2[i].val.quantity = AfterNum(d[i].val.quantity, a.quantity)
                          /\ d2[i].val.quantity = 0 => d[i].val.quantity = 0
                          /\ d2[i].val.price = 0 => d[i].val.price = 0
                     ELSE d2[i] = d[i]]_vars

\* An update that supplied quantity 0, price 0 and a new name has run on an
\* item whose quantity and price are still not 0.
C5_Witness ==
    /\ Exited("p1", "update_item")
    /\ args["p1"].quantity = Some(0)
    /\ args["p1"].price = Some(0)
    /\ args["p1"].name = Some("n2")
    /\ args["p1"].item_id \in Keys(items["p1"])
    /\ LET v == DictGet(items["p1"], args["p1"].item_id)
       IN  v.quantity # 0 /\ v.price # 0 /\ v.name = "n2"

---------------------------------------------------------------------------
(* C6: idempotence *)

NoFields(a) ==
    a.name = None /\ a.category = None /\ a.price = None /\ a.quantity = None

\* C6: remove on an absent item_id leaves catalog and store unchanged; update
\* on a present item_id with no field supplied leaves the catalog unchanged;
\* and removing again what a remove has just removed changes nothing.
C6_Idempotent ==
    [][\A p \in Procs :
        /\ Ran(p, "remove_item") =>
            LET X == args'[p].item_id
                again == Stock_remove_item(items'[p], store', X)
            IN  /\ X \notin Keys(items[p]) => items'[p] = items[p] /\ store' = store
                /\ X \notin Keys(items'[p])
                /\ again.items = items'[p]
                /\ again.store = store'
        /\ (Ran(p, "update_item") /\ NoFields(args'[p])
               /\ args'[p].item_id \in Keys(items[p]))
              => items'[p] = items[p] /\ store' = store]_vars

\* A remove has run on an item_id the catalog of no file yet never held.
C6_Witness ==
    /\ Exited("p1", "remove_item")
    /\ items["p1"] = <<>>
    /\ store = NoFile

---------------------------------------------------------------------------
(* C7: round trip through the store *)

\* C7: saving any catalog the program holds and loading it again gives the
\* same mapping (keys, and every field of every item); loading when there is
\* no store gives the empty mapping; so an invocation starts from the catalog
\* the invocation before it ended with.
C7_RoundTrip ==
    /\ [](/\ \A p \in Procs : load_items(save_items(items[p])) = items[p]
          /\ load_items(NoFile) = <<>>)
    /\ [][\A p \in Procs :
           (pc[p] = "exit" /\ pc'[p] = "loaded") => items'[p] = items[p]]_vars

\* An invocation has started from a store of two differing items, the
\* second-named first.
C7_Witness ==
    /\ pc["p1"] = "loaded"
    /\ Len(items["p1"]) = 2
    /\ items["p1"][1].key = "B"
    /\ items["p1"][1].val.name # items["p1"][2].val.name
    /\ items["p1"][1].val.quantity < 0

---------------------------------------------------------------------------
(* C8: the invoice *)

RECURSIVE LineSum(_, _)
\* The sum of quantity x price over the first n sale arguments.
LineSum(ss, n) == IF n = 0 THEN 0 ELSE LineSum(ss, n - 1) + ss[n][2] * ss[n][3]

\* C8: an invoice over sale triples whose item_ids are all in the catalog is
\* written with one line per sale in input order (the catalog's name of the
\* item, the sale's quantity and price) and a total equal to the sum of
\* quantity x price over the lines, whatever the catalog's own prices and
\* quantities are.
C8_Invoice ==
    \A p \in Procs :
        (/\ Exited(p, "generate_invoice")
         /\ \A i \in 1..Len(args[p].sales) : args[p].sales[i][1] \in Keys(items[p]))
        => LET ss == args[p].sales
           IN  /\ pdf[p].saved
               /\ rc[p] = 0
               /\ out[p] = <<MsgInvoice>>
               /\ Len(pdf[p].lines) = Len(ss)
               /\ \A i \in 1..Len(ss) :
                   /\ pdf[p].lines[i].name = DictGet(items[p], ss[i][1]).name
                   /\ pdf[p].lines[i].quantity = ss[i][2]
                   /\ pdf[p].lines[i].price = ss[i][3]
               /\ 100 * pdf[p].total[1] + pdf[p].total[2] = LineSum(ss, Len(ss))
               /\ pdf[p].total[2] \in 0..99

\* The invoice [(A,2,p), (B,1,p)] has been written, at a price that is not
\* the catalog's and a quantity that is not the one on hand.
C8_Witness ==
    /\ Exited("p1", "generate_invoice")
    /\ pdf["p1"].saved
    /\ Len(args["p1"].sales) = 2
    /\ args["p1"].sales[1] = <<"A", MaxQty, MaxPrice>>
    /\ args["p1"].sales[2][1] = "B"
    /\ args["p1"].sales[2][2] = 1
    /\ args["p1"].sales[2][3] = MaxPrice
    /\ pdf["p1"].total = <<0, (MaxQty + 1) * MaxPrice>>
    /\ QuantityOf(items["p1"], "A") = 0
    /\ pdf["p1"].lines[1].name # pdf["p1"].lines[2].name

---------------------------------------------------------------------------
(* C9: concurrent invocations *)

\* Both invocations have ended a successful sale of the same item, each
\* having loaded the same on-hand quantity of it.
BothSoldFromSame(p, q) ==
    /\ p # q
    /\ Exited(p, "record_sale") /\ out[p] = <<MsgSale>>
    /\ Exited(q, "record_sale") /\ out[q] = <<MsgSale>>
    /\ args[p].item_id = args[q].item_id
    /\ QuantityOf(items[p], args[p].item_id) + args[p].quantity
         = QuantityOf(items[q], args[q].item_id) + args[q].quantity

---------------------------------------------------------------------------
(* C10: stock never goes negative *)

\* C10: from the empty catalog, under sequential commands whose supplied
\* quantities are all >= 0, no item's quantity is ever below 0, in memory or
\* in the store.
C10_NonNegative ==
    /\ \A p \in Procs : \A i \in 1..Len(items[p]) : items[p][i].val.quantity >= 0
    /\ \A i \in 1..Len(store.data) : store.data[i].quantity >= 0

\* A sale has taken the last units of an item, one more would go below 0.
C10_Witness ==
    /\ Exited("p1", "record_sale")
    /\ out["p1"] = <<MsgSale>>
    /\ args["p1"].quantity > 0
    /\ QuantityOf(items["p1"], args["p1"].item_id) = 0

====
